---- MODULE Spec2Model ----
(***************************************************************************)
(* Model of googlecloudsdk/command_lib/compute/routers/router_utils.py:    *)
(* the advertisement flag parsing (ParseMode, ParseGroups, ParsePrefixes,  *)
(* ParseAdvertisements) and the mode-switch confirmation                   *)
(* (PromptIfSwitchToDefaultMode).                                          *)
(*                                                                         *)
(* Conventions.                                                            *)
(*  - A Python value that may be None is a sequence of length 0 or 1:      *)
(*    None is <<>>, a present value x is <<x>>.                            *)
(*  - A Python string that is compared with < is the sequence of its       *)
(*    character codes ("1.2" is <<49, 46, 50>>).                           *)
(*  - A dict is a function; the order in which items() enumerates it is    *)
(*    arbitrary and is a separate input of the call.                       *)
(*  - str.format is the sequence of the pieces it joins.                   *)
(*  - map() returns a list (the module is Python 2 code).                  *)
(***************************************************************************)
EXTENDS Integers, Sequences, FiniteSets, TLC

VARIABLES pc, op, resource_class, args, items_order, existing_mode, new_mode,
          prompt_args, console, outcome

vars == <<pc, op, resource_class, args, items_order, existing_mode, new_mode,
          prompt_args, console, outcome>>

\* ------------------------------------------------------------------ bounds
MaxGroups == 2
MaxRanges == 3

\* ------------------------------------------------------- optional values
None == <<>>
Some(x) == <<x>>
IsNone(o) == Len(o) = 0
Val(o) == o[1]

\* ---------------------------------------------------------------- inputs
\* "10.0.0.0/8", "1.2.3.0/24", "9.0.0.0/8", "10.0.0.0/16" as character codes
Cidr_10_8 == <<49, 48, 46, 48, 46, 48, 46, 48, 47, 56>>
Cidr_1_24 == <<49, 46, 50, 46, 51, 46, 48, 47, 50, 52>>
Cidr_9_8 == <<57, 46, 48, 46, 48, 46, 48, 47, 56>>
Cidr_10_16 == <<49, 48, 46, 48, 46, 48, 46, 48, 47, 49, 54>>
Cidrs == {Cidr_10_8, Cidr_1_24, Cidr_9_8, Cidr_10_16}

\* a range given without a description, "" and "b"
Descriptions == {None, Some(<<>>), Some(<<98>>)}

ResourceClasses == {"RouterBgp", "RouterBgpPeer"}

_MODE_CHOICES == {"DEFAULT", "CUSTOM"}
_GROUP_CHOICES == {"ALL_SUBNETS"}

ModeArgs == {None} \cup {Some(m) : m \in _MODE_CHOICES}
GroupLists == UNION {[1..n -> _GROUP_CHOICES] : n \in 0..MaxGroups}
GroupArgs == {None} \cup {Some(g) : g \in GroupLists}
RangesMaps ==
  UNION {[K -> Descriptions] : K \in {S \in SUBSET Cidrs : Cardinality(S) <= MaxRanges}}
RangesArgs == {None} \cup {Some(r) : r \in RangesMaps}

\* the orders in which a dict with key set K can enumerate its items
Orders(K) ==
  {o \in [1..Cardinality(K) -> K] : \A i, j \in 1..Cardinality(K) : o[i] = o[j] => i = j}

\* ----------------------------------------------------------- enum values
AdvertiseModeValueValuesEnum(cls, name) ==
  [cls |-> cls, enum |-> "AdvertiseModeValueValuesEnum", name |-> name]
AdvertisedGroupsValueListEntryValuesEnum(cls, name) ==
  [cls |-> cls, enum |-> "AdvertisedGroupsValueListEntryValuesEnum", name |-> name]

RouterAdvertisedPrefix_noDescription(prefix, description) ==
  [prefix |-> prefix, description |-> None]

RouterAdvertisedPrefix(prefix, description) ==
  [prefix |-> prefix, description |-> description]

ModeValues(cls) ==
  {None} \cup {Some(AdvertiseModeValueValuesEnum(cls, m)) : m \in _MODE_CHOICES}

\* ------------------------------------------------------------- outcomes
NoOutcome == [kind |-> "none", value |-> <<>>, exc |-> "", message |-> <<>>]
Return(v) == [kind |-> "return", value |-> v, exc |-> "", message |-> <<>>]
Raise(e, m) == [kind |-> "raise", value |-> <<>>, exc |-> e, message |-> m]

\* ------------------------------------------------------------- messages
_MODE_SWITCH_MESSAGE(resource) ==
  <<"WARNING: switching from custom advertisement mode to default will clear out any existing advertised groups/ranges from this ",
    resource, ".">>
_CUSTOM_WITH_DEFAULT_ERROR_MESSAGE(resource) ==
  <<"Cannot specify custom advertisements for a ", resource, " with default mode.">>

_GetResourceClassStr_alwaysRouter(cls) == Some("router")

_GetResourceClassStr(cls) ==
  IF cls = "RouterBgp" THEN Some("router")
  ELSE IF cls = "RouterBgpPeer" THEN Some("peer")
  ELSE None

CustomWithDefaultError(cls) ==
  IF IsNone(_GetResourceClassStr(cls))
  THEN Raise("ValueError", <<"Invalid resource_class value: ", cls>>)
  ELSE Raise("CustomWithDefaultError",
             _CUSTOM_WITH_DEFAULT_ERROR_MESSAGE(Val(_GetResourceClassStr(cls))))

\* ------------------------------------------------------------ comparison
\* str < str: the first differing character decides, a proper prefix is smaller
RECURSIVE StrLess(_, _)
StrLess(a, b) ==
  IF Len(b) = 0 THEN FALSE
  ELSE IF Len(a) = 0 THEN TRUE
  ELSE IF Head(a) # Head(b) THEN Head(a) < Head(b)
  ELSE StrLess(Tail(a), Tail(b))

\* description < description: None sorts before every string
DescLess(x, y) ==
  IF IsNone(y) THEN FALSE
  ELSE IF IsNone(x) THEN TRUE
  ELSE StrLess(Val(x), Val(y))

\* operator.attrgetter('prefix', 'description')
SortKey(p) == <<p.prefix, p.description>>

KeyLess_descriptionFirst(k1, k2) ==
  IF k1[2] # k2[2] THEN DescLess(k1[2], k2[2])
  ELSE IF k1[1] # k2[1] THEN StrLess(k1[1], k2[1])
  ELSE FALSE

\* tuple < tuple: the first differing component decides
KeyLess(k1, k2) ==
  IF k1[1] # k2[1] THEN StrLess(k1[1], k2[1])
  ELSE IF k1[2] # k2[2] THEN DescLess(k1[2], k2[2])
  ELSE FALSE

\* list.sort(key=...): stable, ascending
RECURSIVE InsertByKey(_, _)
InsertByKey(x, s) ==
  IF Len(s) = 0 THEN <<x>>
  ELSE IF KeyLess(SortKey(x), SortKey(Head(s))) THEN <<x>> \o s
  ELSE <<Head(s)>> \o InsertByKey(x, Tail(s))

RECURSIVE SortByKey(_)
SortByKey(s) ==
  IF Len(s) = 0 THEN <<>>
  ELSE InsertByKey(s[Len(s)], SortByKey(SubSeq(s, 1, Len(s) - 1)))

\* ---------------------------------------------------------------- parsing
ParseMode(cls, mode) == AdvertiseModeValueValuesEnum(cls, mode)

ParseGroups(cls, groups) ==
  [i \in 1..Len(groups) |-> AdvertisedGroupsValueListEntryValuesEnum(cls, groups[i])]

\* ranges.items() when the dict enumerates its keys in the order `order`
Items(ranges, order) == [i \in 1..Len(order) |-> <<order[i], ranges[order[i]]>>]

ParsePrefixes_unsorted(ranges, order) ==
  [i \in 1..Len(order) |->
     RouterAdvertisedPrefix(Items(ranges, order)[i][1], Items(ranges, order)[i][2])]

ParsePrefixes(ranges, order) ==
  SortByKey([i \in 1..Len(order) |->
               RouterAdvertisedPrefix(Items(ranges, order)[i][1], Items(ranges, order)[i][2])])

\* truth value of an optional list: None and [] are false
Truthy(o) == ~IsNone(o) /\ Len(Val(o)) > 0

IsDefaultMode_anyMode(cls, mode) == ~IsNone(mode)

IsDefaultMode_noneIsDefault(cls, mode) ==
  IsNone(mode) \/ Val(mode) = AdvertiseModeValueValuesEnum(cls, "DEFAULT")

IsDefaultMode(cls, mode) ==
  ~IsNone(mode) /\ Val(mode) = AdvertiseModeValueValuesEnum(cls, "DEFAULT")

HasCustomAdvertisements_groupsOnly(groups, prefixes) == Truthy(groups)

HasCustomAdvertisements(groups, prefixes) == Truthy(groups) \/ Truthy(prefixes)

DefaultModeResult_asParsed(mode, groups, prefixes) == <<mode, groups, prefixes>>

DefaultModeResult(mode, groups, prefixes) == <<mode, Some(<<>>), Some(<<>>)>>

ParseAdvertisements(cls, a, order) ==
  LET mode == IF ~IsNone(a.mode) THEN Some(ParseMode(cls, Val(a.mode))) ELSE None
      groups == IF ~IsNone(a.groups) THEN Some(ParseGroups(cls, Val(a.groups))) ELSE None
      prefixes == IF ~IsNone(a.ranges) THEN Some(ParsePrefixes(Val(a.ranges), order)) ELSE None
  IN  IF IsDefaultMode(cls, mode)
      THEN IF HasCustomAdvertisements(groups, prefixes)
           THEN CustomWithDefaultError(cls)
           ELSE Return(DefaultModeResult(mode, groups, prefixes))
      ELSE Return(<<mode, groups, prefixes>>)

\* ------------------------------------------------------------ mode switch
NeedsPrompt_anyNewMode(cls, existing, new) ==
  /\ ~IsNone(existing)
  /\ Val(existing) = AdvertiseModeValueValuesEnum(cls, "CUSTOM")

NeedsPrompt(cls, existing, new) ==
  /\ ~IsNone(existing)
  /\ Val(existing) = AdvertiseModeValueValuesEnum(cls, "CUSTOM")
  /\ ~IsNone(new)
  /\ Val(new) = AdvertiseModeValueValuesEnum(cls, "DEFAULT")

PromptContinueArgs_noCancel(cls) ==
  [message |-> _MODE_SWITCH_MESSAGE(Val(_GetResourceClassStr(cls))), cancel_on_no |-> FALSE]

\* the arguments PromptIfSwitchToDefaultMode passes to PromptContinue
PromptContinueArgs(cls) ==
  [message |-> _MODE_SWITCH_MESSAGE(Val(_GetResourceClassStr(cls))), cancel_on_no |-> TRUE]

NoPromptArgs == [message |-> <<>>, cancel_on_no |-> FALSE]
NoArgs == [mode |-> None, groups |-> None, ranges |-> None]

\* ---------------------------------------------------------- state machine
Init ==
  /\ pc = "start"
  /\ op = "none"
  /\ resource_class = "none"
  /\ args = NoArgs
  /\ items_order = <<>>
  /\ existing_mode = None
  /\ new_mode = None
  /\ prompt_args = NoPromptArgs
  /\ console = <<>>
  /\ outcome = NoOutcome

\* a command calls ParseAdvertisements(messages, resource_class, args)
CallParseAdvertisements ==
  /\ pc = "start"
  /\ \E cls \in ResourceClasses, m \in ModeArgs, g \in GroupArgs, r \in RangesArgs :
       \E o \in (IF IsNone(r) THEN {<<>>} ELSE Orders(DOMAIN Val(r))) :
         /\ resource_class' = cls
         /\ args' = [mode |-> m, groups |-> g, ranges |-> r]
         /\ items_order' = o
         /\ outcome' = ParseAdvertisements(cls, [mode |-> m, groups |-> g, ranges |-> r], o)
  /\ op' = "ParseAdvertisements"
  /\ pc' = "done"
  /\ UNCHANGED <<existing_mode, new_mode, prompt_args, console>>

\* a command calls ParsePrefixes(messages, ranges)
CallParsePrefixes ==
  /\ pc = "start"
  /\ \E r \in RangesMaps :
       \E o \in Orders(DOMAIN r) :
         /\ args' = [mode |-> None, groups |-> None, ranges |-> Some(r)]
         /\ items_order' = o
         /\ outcome' = Return(ParsePrefixes(r, o))
  /\ op' = "ParsePrefixes"
  /\ pc' = "done"
  /\ UNCHANGED <<resource_class, existing_mode, new_mode, prompt_args, console>>

\* a command calls PromptIfSwitchToDefaultMode(messages, resource_class,
\* existing_mode, new_mode); the call returns at once or enters PromptContinue
CallPromptIfSwitchToDefaultMode ==
  /\ pc = "start"
  /\ \E cls \in ResourceClasses :
       \E e \in ModeValues(cls), n \in ModeValues(cls) :
         /\ resource_class' = cls
         /\ existing_mode' = e
         /\ new_mode' = n
         /\ IF NeedsPrompt(cls, e, n)
            THEN /\ prompt_args' = PromptContinueArgs(cls)
                 /\ pc' = "PromptContinue"
                 /\ outcome' = outcome
            ELSE /\ prompt_args' = prompt_args
                 /\ pc' = "done"
                 /\ outcome' = Return(None)
  /\ op' = "PromptIfSwitchToDefaultMode"
  /\ UNCHANGED <<args, items_order, console>>

\* PromptContinue writes the message
PromptContinueMessage ==
  /\ pc = "PromptContinue"
  /\ console' = Append(console, [event |-> "message", text |-> prompt_args.message])
  /\ pc' = "PromptContinueAsk"
  /\ UNCHANGED <<op, resource_class, args, items_order, existing_mode, new_mode,
                 prompt_args, outcome>>

\* PromptContinue asks whether to continue and blocks on the answer
PromptContinueAsk ==
  /\ pc = "PromptContinueAsk"
  /\ console' = Append(console, [event |-> "confirm", text |-> <<>>])
  /\ pc' = "PromptContinueAnswer"
  /\ UNCHANGED <<op, resource_class, args, items_order, existing_mode, new_mode,
                 prompt_args, outcome>>

\* the user answers; with cancel_on_no a "no" raises OperationCancelledError
PromptContinueAnswer ==
  /\ pc = "PromptContinueAnswer"
  /\ \E answer \in BOOLEAN :
       /\ console' = Append(console, [event |-> "answer", text |-> <<answer>>])
       /\ outcome' = IF ~answer /\ prompt_args.cancel_on_no
                     THEN Raise("OperationCancelledError", <<>>)
                     ELSE Return(None)
  /\ pc' = "done"
  /\ UNCHANGED <<op, resource_class, args, items_order, existing_mode, new_mode,
                 prompt_args>>

Next ==
  \/ CallParseAdvertisements
  \/ CallParsePrefixes
  \/ CallPromptIfSwitchToDefaultMode
  \/ PromptContinueMessage
  \/ PromptContinueAsk
  \/ PromptContinueAnswer

Spec == Init /\ [][Next]_vars

\* ================================================================ claims
Parsed == op = "ParseAdvertisements" /\ pc = "done"
PrefixesParsed == op = "ParsePrefixes" /\ pc = "done"
Prompted == op = "PromptIfSwitchToDefaultMode"

GroupsSupplied == ~IsNone(args.groups)
RangesSupplied == ~IsNone(args.ranges)
GroupsNonEmpty == GroupsSupplied /\ Len(Val(args.groups)) > 0
RangesNonEmpty == RangesSupplied /\ DOMAIN Val(args.ranges) # {}

DefaultOf(cls) == [cls |-> cls, enum |-> "AdvertiseModeValueValuesEnum", name |-> "DEFAULT"]
CustomOf(cls) == [cls |-> cls, enum |-> "AdvertiseModeValueValuesEnum", name |-> "CUSTOM"]

\* the returned groups are the supplied ones, one for one and in order
GroupsAsSupplied(g) ==
  IF GroupsSupplied
  THEN /\ ~IsNone(g)
       /\ Len(Val(g)) = Len(Val(args.groups))
       /\ \A i \in 1..Len(Val(g)) :
            /\ Val(g)[i].enum = "AdvertisedGroupsValueListEntryValuesEnum"
            /\ Val(g)[i].cls = resource_class
            /\ Val(g)[i].name = Val(args.groups)[i]
  ELSE IsNone(g)

\* the returned prefixes are ParsePrefixes of the supplied map
PrefixesAsSupplied(p) ==
  IF RangesSupplied
  THEN /\ ~IsNone(p)
       /\ Val(p) = ParsePrefixes(Val(args.ranges), items_order)
       /\ (DOMAIN Val(args.ranges) = {} => Len(Val(p)) = 0)
  ELSE IsNone(p)

\* C1: mode DEFAULT with a non-empty groups list or a non-empty ranges map
\* fails with CustomWithDefaultError and returns no triple.
C1_DefaultWithCustomRaises ==
  (Parsed /\ args.mode = Some("DEFAULT") /\ (GroupsNonEmpty \/ RangesNonEmpty))
    => /\ outcome.kind = "raise"
       /\ outcome.exc = "CustomWithDefaultError"
       /\ Len(outcome.value) = 0

C1_Witness ==
  /\ Parsed /\ args.mode = Some("DEFAULT")
  /\ GroupsSupplied /\ ~GroupsNonEmpty /\ RangesNonEmpty
  /\ outcome.exc = "CustomWithDefaultError"

\* C2: mode DEFAULT with groups and ranges each absent or empty returns
\* (DEFAULT, [], []): absent ones come back as empty sequences.
C2_DefaultClears ==
  (Parsed /\ args.mode = Some("DEFAULT") /\ ~GroupsNonEmpty /\ ~RangesNonEmpty)
    => /\ outcome.kind = "return"
       /\ Len(outcome.value) = 3
       /\ outcome.value[1] = Some(DefaultOf(resource_class))
       /\ ~IsNone(outcome.value[2]) /\ Len(Val(outcome.value[2])) = 0
       /\ ~IsNone(outcome.value[3]) /\ Len(Val(outcome.value[3])) = 0

C2_Witness ==
  /\ Parsed /\ args.mode = Some("DEFAULT")
  /\ ~GroupsSupplied /\ ~RangesSupplied
  /\ outcome.kind = "return"
  /\ ~IsNone(outcome.value[2]) /\ ~IsNone(outcome.value[3])

\* C3: mode CUSTOM never fails and returns (CUSTOM, groups, prefixes): the
\* groups as supplied, the prefixes ParsePrefixes of the ranges, empty kept
\* empty and absent kept absent.
C3_CustomReturnsAsParsed ==
  (Parsed /\ args.mode = Some("CUSTOM"))
    => /\ outcome.kind = "return"
       /\ Len(outcome.value) = 3
       /\ outcome.value[1] = Some(CustomOf(resource_class))
       /\ GroupsAsSupplied(outcome.value[2])
       /\ PrefixesAsSupplied(outcome.value[3])

C3_Witness ==
  /\ Parsed /\ args.mode = Some("CUSTOM")
  /\ GroupsSupplied /\ Len(Val(args.groups)) = 2
  /\ RangesSupplied /\ Cardinality(DOMAIN Val(args.ranges)) = 2
  /\ outcome.kind = "return"
  /\ Len(Val(outcome.value[2])) = 2 /\ Len(Val(outcome.value[3])) = 2

\* text order of two strings, stated without recursion: they agree on the
\* first k characters and then a ends or has the smaller character
TextLeq(a, b) ==
  \E k \in 0..Len(a) :
    /\ k <= Len(b)
    /\ \A i \in 1..k : a[i] = b[i]
    /\ (k = Len(a) \/ (k < Len(b) /\ a[k + 1] < b[k + 1]))

DescriptionLeq(x, y) == IsNone(x) \/ (~IsNone(y) /\ TextLeq(Val(x), Val(y)))

RecordLeq(p, q) ==
  \/ p.prefix # q.prefix /\ TextLeq(p.prefix, q.prefix)
  \/ p.prefix = q.prefix /\ DescriptionLeq(p.description, q.description)

ExampleRanges == (Cidr_10_8 :> Some(<<>>)) @@ (Cidr_1_24 :> Some(<<98>>))
ExamplePrefixes ==
  <<[prefix |-> Cidr_1_24, description |-> Some(<<98>>)],
    [prefix |-> Cidr_10_8, description |-> Some(<<>>)]>>

\* C4: the sequence ParsePrefixes returns is ascending by (cidr, description),
\* the cidr compared as text: every adjacent pair is in order, and
\* {"10.0.0.0/8": "", "1.2.3.0/24": "b"} gives 1.2.3.0/24 before 10.0.0.0/8.
C4_PrefixesSorted ==
  PrefixesParsed
    => /\ \A i \in 1..(Len(outcome.value) - 1) :
            RecordLeq(outcome.value[i], outcome.value[i + 1])
       /\ (Val(args.ranges) = ExampleRanges => outcome.value = ExamplePrefixes)

C4_Witness ==
  /\ PrefixesParsed
  /\ Val(args.ranges) = ExampleRanges
  /\ items_order = <<Cidr_10_8, Cidr_1_24>>
  /\ outcome.value = ExamplePrefixes

\* C5: PromptIfSwitchToDefaultMode asks for confirmation exactly when the
\* existing mode is CUSTOM and the new mode is DEFAULT; for every other pair
\* it shows nothing, asks nothing and returns normally.
SwitchToDefault ==
  existing_mode = Some(CustomOf(resource_class)) /\ new_mode = Some(DefaultOf(resource_class))

C5_PromptIffSwitchToDefault ==
  Prompted
    => /\ (pc # "done" => SwitchToDefault)
       /\ (pc = "done" =>
             ((\E i \in 1..Len(console) : console[i].event = "confirm") <=> SwitchToDefault))
       /\ (~SwitchToDefault => Len(console) = 0 /\ pc = "done" /\ outcome.kind = "return")

C5_Witness ==
  /\ Prompted /\ pc = "done"
  /\ existing_mode = Some(CustomOf(resource_class))
  /\ new_mode = Some(CustomOf(resource_class))
  /\ Len(console) = 0
  /\ outcome.kind = "return"

\* C6: on a switch from CUSTOM to DEFAULT the warning naming the resource kind
\* is shown before the confirmation is asked, the confirmation is asked once,
\* a "no" ends the call with a cancellation and a "yes" lets it return.
C6_WarnConfirmOnceThenFollowAnswer ==
  (Prompted /\ SwitchToDefault)
    => /\ \A i \in 1..Len(console) :
            console[i].event = "confirm"
              => \E j \in 1..(i - 1) :
                   /\ console[j].event = "message"
                   /\ console[j].text[2] = (IF resource_class = "RouterBgp" THEN "router" ELSE "peer")
       /\ Cardinality({i \in 1..Len(console) : console[i].event = "confirm"}) <= 1
       /\ (pc = "done" =>
             /\ Cardinality({i \in 1..Len(console) : console[i].event = "confirm"}) = 1
             /\ console[Len(console)].event = "answer"
             /\ (console[Len(console)].text[1] => outcome.kind = "return")
             /\ (~console[Len(console)].text[1] =>
                   outcome.kind = "raise" /\ outcome.exc = "OperationCancelledError"))

C6_Witness ==
  /\ Prompted /\ SwitchToDefault /\ pc = "done"
  /\ console[Len(console)].event = "answer"
  /\ ~console[Len(console)].text[1]
  /\ outcome.exc = "OperationCancelledError"

\* C7: a CustomWithDefaultError says "router" for RouterBgp and "peer" for
\* RouterBgpPeer in "Cannot specify custom advertisements for a ... with
\* default mode." and nothing else.
C7_ErrorNamesResourceKind ==
  outcome.exc = "CustomWithDefaultError"
    => /\ resource_class \in {"RouterBgp", "RouterBgpPeer"}
       /\ outcome.message =
            <<"Cannot specify custom advertisements for a ",
              IF resource_class = "RouterBgp" THEN "router" ELSE "peer",
              " with default mode.">>

C7_Witness ==
  /\ outcome.exc = "CustomWithDefaultError"
  /\ resource_class = "RouterBgpPeer"
  /\ outcome.message[2] = "peer"

\* C8: with no mode supplied the call never fails, whatever the groups and
\* ranges, and returns (absent, groups, prefixes) as parsed, absent ones
\* staying absent.
C8_AbsentModeReturnsAsParsed ==
  (Parsed /\ IsNone(args.mode))
    => /\ outcome.kind = "return"
       /\ Len(outcome.value) = 3
       /\ IsNone(outcome.value[1])
       /\ GroupsAsSupplied(outcome.value[2])
       /\ PrefixesAsSupplied(outcome.value[3])

C8_Witness ==
  /\ Parsed /\ IsNone(args.mode)
  /\ GroupsNonEmpty /\ ~RangesSupplied
  /\ outcome.kind = "return"
  /\ IsNone(outcome.value[1]) /\ IsNone(outcome.value[3])
  /\ Len(Val(outcome.value[2])) > 0

\* C9: the result of ParsePrefixes does not depend on the order in which the
\* map enumerates its entries: every enumeration order of the same map gives
\* the sequence that was returned.
C9_OrderIndependent ==
  PrefixesParsed
    => \A o \in Orders(DOMAIN Val(args.ranges)) :
         ParsePrefixes(Val(args.ranges), o) = outcome.value

C9_Witness ==
  /\ PrefixesParsed
  /\ Len(items_order) = 3
  /\ outcome.value[1].prefix = items_order[3]
  /\ outcome.value[3].prefix = items_order[1]

\* C10: ParsePrefixes returns one record per key of the map, each key in
\* exactly one record, the record's description being the map's value for the
\* key (an absent description included); the empty map gives the empty
\* sequence.
C10_PrefixesAreTheEntries ==
  PrefixesParsed
    => /\ Len(outcome.value) = Cardinality(DOMAIN Val(args.ranges))
       /\ \A k \in DOMAIN Val(args.ranges) :
            /\ Cardinality({i \in 1..Len(outcome.value) : outcome.value[i].prefix = k}) = 1
            /\ \A i \in 1..Len(outcome.value) :
                 outcome.value[i].prefix = k
                   => outcome.value[i].description = Val(args.ranges)[k]
       /\ (DOMAIN Val(args.ranges) = {} => Len(outcome.value) = 0)

C10_Witness ==
  /\ PrefixesParsed
  /\ Len(outcome.value) = 3
  /\ \E i, j \in 1..3 :
       /\ IsNone(outcome.value[i].description)
       /\ outcome.value[j].description = Some(<<98>>)

====
